---- MODULE Spec2Model ----
(***************************************************************************)
(* PageRank estimators of pagerank.py: transition_model, sample_pagerank,  *)
(* iterate_pagerank and calcPageRank, driven by a caller that holds one    *)
(* corpus (the Link Graph built by crawl) and calls the three functions    *)
(* on it in any order.                                                     *)
(*                                                                         *)
(* Numbers.  Pages are 1..N in the corpus' dict order.  A probability or   *)
(* rank x is held as the integer x * Unit * N (N = len(corpus)), so that   *)
(* 1/N and every value rounded to 4 decimals are exact.  damping_factor is *)
(* held in hundredths.  round(x, 4) is RoundSet: the nearest multiple of   *)
(* 1/Unit.  When x is exactly half way between two multiples, Python       *)
(* decides by the binary representation error of the float, which this     *)
(* model does not carry; the same holds for the float test abs(..) > 0.001 *)
(* when the decimal difference is exactly 0.001.  tieRule says what the    *)
(* model does there:                                                       *)
(*   "exact"  the model does not follow the call past that point (a call   *)
(*            of iterate_pagerank ends with ret.status = "undecided"):     *)
(*            every behaviour is an execution of the code, value for       *)
(*            value (specifications Spec and LiveSpec);                    *)
(*   "any"    both outcomes are taken, at every rounding independently:    *)
(*            every execution of the code is a behaviour (IterSpec);       *)
(*   "even", "up", "down"  one fixed function (IterDetSpec).               *)
(***************************************************************************)
EXTENDS Integers, Sequences, FiniteSets

VARIABLES corpus, damping_factor, tieRule, pc, ranks, prevRanks,
          currentPage, i, n, ret, iterResults

vars == <<corpus, damping_factor, tieRule, pc, ranks, prevRanks,
          currentPage, i, n, ret, iterResults>>

\* ---------------------------------------------------------------- bounds
MaxPages == 3
MaxSamples == 2

\* ------------------------------------------------------------- constants
DAMPING == 85
SAMPLES == 10000
Unit == 10000
Threshold == 10
Dampings == {DAMPING, 60}
DrawUnit == 10 * Unit
Draws == {0, 3 * Unit, 7 * Unit, DrawUnit - 5}
SampleCounts == (0 - 1) .. MaxSamples
FixedRules == {"even", "up", "down"}

\* --------------------------------------------------------------- helpers
RECURSIVE SumSeq(_)
SumSeq(s) == IF Len(s) = 0 THEN 0 ELSE s[1] + SumSeq(Tail(s))

Abs(x) == IF x < 0 THEN 0 - x ELSE x

Pages(c) == 1 .. Len(c)

\* the outcomes at an exact tie, by tieRule
TieSet(down, up, even) ==
    IF tieRule = "any" THEN {down, up}
    ELSE IF tieRule = "up" THEN {up}
    ELSE IF tieRule = "down" THEN {down}
    ELSE IF tieRule = "even" THEN {even}
    ELSE {}

\* round(x, 4) for x = num / (den * Unit): the integers nearest to num/den
RoundSet(num, den) ==
    LET fl == num \div den
        rem == num % den
    IN  IF 2 * rem < den THEN {fl}
        ELSE IF 2 * rem > den THEN {fl + 1}
        ELSE TieSet(fl, fl + 1, IF fl % 2 = 0 THEN fl ELSE fl + 1)

\* the float test a > b on the decimals a, b
GreaterSet(a, b) ==
    IF a # b THEN {a > b} ELSE TieSet(FALSE, TRUE, FALSE)

\* the graphs crawl returns: links only to keys, no self-links
IsValidGraph(c) ==
    \A p \in Pages(c) : c[p] \subseteq Pages(c) /\ p \notin c[p]

Graphs ==
    UNION { {c \in [1 .. k -> SUBSET (1 .. k)] : IsValidGraph(c)} : k \in 0 .. MaxPages }

Orderings(S) ==
    {s \in [1 .. Cardinality(S) -> S] : \A a, b \in 1 .. Cardinality(S) : s[a] = s[b] => a = b}

NoRet == [op |-> "none", status |-> "none"]

\* a corpus of 4 pages on which, with damping 0.93, the passes of
\* iterate_pagerank come back to ranks they have held before
LoopingCorpus == <<{4}, {1, 3, 4}, {1}, {3}>>

\* the (corpus, damping_factor) pairs main may hold: every small graph with
\* each damping of Dampings, and the looping corpus with its damping
Inputs == (Graphs \X Dampings) \cup {<<LoopingCorpus, 93>>}

\* ------------------------------------------------------ transition_model
\* The dicts transition_model can return for a page of the corpus: keys in
\* insertion order, prob[q] = model[q] * Unit * N.
transition_model(c, page, d) ==
    LET N == Len(c)
        k == Cardinality(c[page])
    IN  IF k = 0
        THEN {[keys |-> [q \in 1 .. N |-> q], prob |-> [q \in 1 .. N |-> Unit]]}
        ELSE { [keys |-> <<page>> \o order,
                prob |-> [q \in {page} \cup c[page] |->
                             IF q \in c[page] THEN link * N ELSE stay * N]] :
                 order \in Orderings(c[page] \ {page}),
                 stay \in RoundSet((100 - d) * 100, k + 1),
                 link \in RoundSet((100 - d) * 100 * k + d * 100 * (k + 1), k * (k + 1)) }

\* sum of the values of a returned model, in units of 1/(Unit * N)
ModelSum(m) == SumSeq([j \in 1 .. Len(m.keys) |-> m.prob[m.keys[j]]])

\* the cumulative-sum loop of sample_pagerank: the first key whose running
\* sum reaches the draw r (in 1/DrawUnit); the current page when none does
RECURSIVE PickFrom(_, _, _, _, _, _)
PickFrom(m, r, j, acc, cur, N) ==
    IF j > Len(m.keys) THEN cur
    ELSE LET sum == acc + m.prob[m.keys[j]]
         IN  IF r * N <= sum * (DrawUnit \div Unit) THEN m.keys[j]
             ELSE PickFrom(m, r, j + 1, sum, cur, N)

\* ---------------------------------------------------------- calcPageRank
\* the possible values of sumOfRightSide (in 1/Unit) after pages q..N
RECURSIVE RightSums(_, _, _, _, _)
RightSums(q, acc, pageToCalculate, c, rk) ==
    IF q > Len(c) THEN acc
    ELSE IF pageToCalculate \in c[q]
         THEN RightSums(q + 1,
                        {s + t : s \in acc,
                                 t \in RoundSet(rk[q], Len(c) * Cardinality(c[q]))},
                        pageToCalculate, c, rk)
         ELSE RightSums(q + 1, acc, pageToCalculate, c, rk)

calcPageRank(pageToCalculate, c, rk, d) ==
    { (a + b) * Len(c) :
        a \in RoundSet((100 - d) * 100, Len(c)),
        b \in UNION { RoundSet(d * s, 100) : s \in RightSums(1, {0}, pageToCalculate, c, rk) } }

\* the for loop of lines 151-152: pages p..N rewritten in place, one by one
RECURSIVE UpdateFrom(_, _, _, _)
UpdateFrom(p, c, rk, d) ==
    IF p > Len(c) THEN {rk}
    ELSE UNION { UpdateFrom(p + 1, c, [rk EXCEPT ![p] = v], d) :
                   v \in calcPageRank(p, c, rk, d) }

\* Converged looking at the first page only
ConvergedFirstPage(prev, rk) ==
    IF Len(rk) = 0 THEN {TRUE}
    ELSE {~ g : g \in GreaterSet(Abs(prev[1] - rk[1]), Threshold * Len(rk))}

\* the flag of lines 155-159: TRUE when no page moved by more than 0.001
Converged(prev, rk) ==
    LET N == Len(rk)
        moved(p) == Abs(prev[p] - rk[p])
    IN  IF \E p \in 1 .. N : moved(p) > Threshold * N THEN {FALSE}
        ELSE IF \E p \in 1 .. N : moved(p) = Threshold * N
             THEN {~ g : g \in GreaterSet(Threshold * N, Threshold * N)}
             ELSE {TRUE}

\* lines 142-145: every page without links is given a link to every page
SinkRewrite(c) ==
    [p \in 1 .. Len(c) |-> IF Cardinality(c[p]) = 0 THEN 1 .. Len(c) ELSE c[p]]

\* InitRanks keeping the ranks a previous call left behind
InitRanksKept(c) ==
    IF Len(c) > 0 /\ Len(ranks) = Len(c) THEN ranks ELSE [p \in 1 .. Len(c) |-> Unit]

\* lines 136-139: every page starts at 1/nbOfPages
InitRanks(c) == [p \in 1 .. Len(c) |-> Unit]

\* ------------------------------------------------------------ the caller
\* The corpus crawl returned, and the arguments main passes on.  Every
\* behaviour keeps one damping factor and one rounding rule.
InitWith(rules) ==
    /\ \E in \in Inputs : corpus = in[1] /\ damping_factor = in[2]
    /\ tieRule \in rules
    /\ pc = "idle"
    /\ ranks = <<>>
    /\ prevRanks = <<>>
    /\ currentPage = 0
    /\ i = 0
    /\ n = 0
    /\ ret = NoRet
    /\ iterResults = <<>>

Init == InitWith({"exact"})

AnyInit == InitWith({"any"})

DetInit == InitWith(FixedRules)

\* transition_model(corpus, page, damping_factor) called by the caller;
\* corpus[page] raises KeyError for a page that is no key
TransitionCall(page) ==
    /\ pc = "idle"
    /\ IF page \in Pages(corpus)
       THEN \E m \in transition_model(corpus, page, damping_factor) :
               ret' = [op |-> "transition_model", status |-> "ok", page |-> page, model |-> m]
       ELSE ret' = [op |-> "transition_model", status |-> "error"]
    /\ ranks' = <<>>
    /\ prevRanks' = <<>>
    /\ currentPage' = 0
    /\ i' = 0
    /\ n' = 0
    /\ UNCHANGED <<corpus, damping_factor, tieRule, pc, iterResults>>

\* sample_pagerank, lines 85-95: the counters, the first page, its visit;
\* random.randrange(0) raises ValueError on an empty corpus
SampleCall(samples) ==
    /\ pc = "idle"
    /\ n' = samples
    /\ prevRanks' = <<>>
    /\ i' = 0
    /\ IF Len(corpus) = 0
       THEN /\ ranks' = <<>>
            /\ currentPage' = 0
            /\ ret' = [op |-> "sample_pagerank", status |-> "error"]
            /\ pc' = "idle"
       ELSE \E randomIndex \in 0 .. Len(corpus) - 1 :
            /\ currentPage' = randomIndex + 1
            /\ ranks' = [p \in Pages(corpus) |-> IF p = randomIndex + 1 THEN 1 ELSE 0]
            /\ ret' = NoRet
            /\ pc' = "sample"
    /\ UNCHANGED <<corpus, damping_factor, tieRule, iterResults>>

\* sample_pagerank, lines 97-116: one pass of for i in range(n-1)
SampleStep ==
    /\ pc = "sample"
    /\ i < n - 1
    /\ \E currentModel \in transition_model(corpus, currentPage, damping_factor),
          randomNb \in Draws :
          LET next == IF randomNb * 100 >= (100 - damping_factor) * DrawUnit
                      THEN {PickFrom(currentModel, r, 1, 0, currentPage, Len(corpus)) : r \in Draws}
                      ELSE Pages(corpus)
          IN  \E page \in next :
                /\ currentPage' = page
                /\ ranks' = [ranks EXCEPT ![page] = @ + 1]
    /\ i' = i + 1
    /\ UNCHANGED <<corpus, damping_factor, tieRule, pc, prevRanks, n, ret,
                   iterResults>>

\* sample_pagerank, lines 118-122: every counter divided by SAMPLES; the
\* dict goes to the caller as the quotients num[p] / den
SampleReturn ==
    /\ pc = "sample"
    /\ i >= n - 1
    /\ ranks' = <<>>
    /\ ret' = [op |-> "sample_pagerank", status |-> "ok", num |-> ranks, den |-> SAMPLES]
    /\ pc' = "idle"
    /\ UNCHANGED <<corpus, damping_factor, tieRule, prevRanks, currentPage, i, n,
                   iterResults>>

\* iterate_pagerank, lines 135-145: the initial ranks, then the sinks of
\* the caller's corpus are rewritten
IterateCall ==
    /\ pc = "idle"
    /\ ranks' = InitRanks(corpus)
    /\ corpus' = SinkRewrite(corpus)
    /\ prevRanks' = <<>>
    /\ currentPage' = 0
    /\ i' = 0
    /\ n' = 0
    /\ ret' = NoRet
    /\ pc' = "iterate"
    /\ UNCHANGED <<damping_factor, tieRule, iterResults>>

\* iterate_pagerank, lines 149-163: one pass of the while loop, and the
\* return when the flag is set.  prevRanks is the copy made at the top of
\* the pass; a pass that loops leaves it dead (the next pass overwrites it
\* before any read), so it is kept only on return.  iterResults keeps the
\* last two results returned; it is kept only when rounding is a function
\* (tieRule one of FixedRules).  Under tieRule "exact" a pass that meets a
\* tie has no outcome the model can name, and the call is left.
IterateRound ==
    /\ pc = "iterate"
    /\ LET outcomes == {<<rk, flag>> : rk \in UpdateFrom(1, corpus, ranks, damping_factor),
                                        flag \in BOOLEAN }
           decided == {o \in outcomes : o[2] \in Converged(ranks, o[1])}
       IN  IF decided = {}
           THEN /\ pc' = "idle"
                /\ ret' = [op |-> "iterate_pagerank", status |-> "undecided"]
                /\ UNCHANGED <<ranks, prevRanks, iterResults>>
           ELSE \E o \in decided :
                /\ ranks' = o[1]
                /\ IF o[2]
                   THEN /\ pc' = "idle"
                        /\ prevRanks' = ranks
                        /\ ret' = [op |-> "iterate_pagerank", status |-> "ok", value |-> o[1]]
                        /\ iterResults' =
                             IF tieRule \notin FixedRules THEN iterResults
                             ELSE IF Len(iterResults) = 2 THEN <<iterResults[2], o[1]>>
                             ELSE Append(iterResults, o[1])
                   ELSE /\ pc' = "iterate"
                        /\ prevRanks' = <<>>
                        /\ UNCHANGED <<ret, iterResults>>
    /\ UNCHANGED <<corpus, damping_factor, tieRule, currentPage, i, n>>

Next ==
    \/ \E page \in 1 .. MaxPages + 1 : page <= Len(corpus) + 1 /\ TransitionCall(page)
    \/ \E samples \in SampleCounts : SampleCall(samples)
    \/ SampleStep
    \/ SampleReturn
    \/ IterateCall
    \/ IterateRound

\* executions of the code whose roundings decimal arithmetic decides
Spec == Init /\ [][Next]_vars

\* a caller that uses only the iterative estimator
NextIterate ==
    \/ IterateCall
    \/ IterateRound

\* every execution of the code is a behaviour: both outcomes at every tie
IterSpec == AnyInit /\ [][NextIterate]_vars

\* rounding is a function: the same call on the same values rounds the same way
IterDetSpec == DetInit /\ [][NextIterate]_vars

\* the while loop of iterate_pagerank keeps running until it returns
LiveSpec == Spec /\ WF_vars(IterateRound)

\* ---------------------------------------------------------------- claims
Returned(op) == pc = "idle" /\ ret.op = op /\ ret.status = "ok"

\* C1: iterate_pagerank leaves the caller's corpus as it was: the step that
\* enters iterate_pagerank changes the outbound set of no page.
IterateLeavesCorpus == [][(pc = "idle" /\ pc' = "iterate") => corpus' = corpus]_vars

\* C2: sample_pagerank on a non-empty corpus with n > 0 returns for every
\* page its visit count divided by n, so the ranks lie in [0,1] and sum to 1.
SampleRanksAreFrequencies ==
    (Returned("sample_pagerank") /\ n > 0 /\ Len(corpus) > 0) =>
        /\ ret.den = n
        /\ \A p \in Pages(corpus) : 0 <= ret.num[p] /\ ret.num[p] <= ret.den
        /\ SumSeq(ret.num) = ret.den

\* C3: on a corpus as crawl builds it (links only to keys, no self-link) the
\* values of the dict transition_model returns sum to 1 within 1e-6.
TransitionSumsToOne ==
    (Returned("transition_model") /\ IsValidGraph(corpus)) =>
        Abs(ModelSum(ret.model) - Unit * Len(corpus)) * 100 <= Len(corpus)

\* C4: on a non-empty corpus iterate_pagerank returns one rank per page,
\* every rank in [0,1], and the ranks sum to 1 within 1e-3.
IterateRanksSumToOne ==
    (Returned("iterate_pagerank") /\ Len(corpus) > 0) =>
        /\ Len(ret.value) = Len(corpus)
        /\ \A p \in Pages(corpus) :
              0 <= ret.value[p] /\ ret.value[p] <= Unit * Len(corpus)
        /\ Abs(SumSeq(ret.value) - Unit * Len(corpus)) <= Threshold * Len(corpus)

\* C5: on a non-empty corpus the while loop of iterate_pagerank eventually
\* exits and the call ends.
IterTerminates ==
    (pc = "iterate" /\ Len(corpus) > 0) ~> (pc = "idle")

\* C6: when iterate_pagerank returns, no page's rank differs by more than
\* 0.001 from its rank before the last pass.
ReturnWithinThreshold ==
    Returned("iterate_pagerank") =>
        \A p \in Pages(corpus) :
            Abs(prevRanks[p] - ret.value[p]) <= Threshold * Len(corpus)

\* C6 witness: a return after a last pass that still moved some page, while
\* an earlier pass had moved the ranks away from their initial values.
ReturnWithinThresholdWitness ==
    /\ Returned("iterate_pagerank")
    /\ prevRanks # InitRanks(corpus)
    /\ \E p \in Pages(corpus) : prevRanks[p] # ret.value[p]

\* C7: sample_pagerank with n <= 0 on a non-empty corpus fails and returns
\* no rank assignment.
NonPositiveSamplesRejected ==
    (pc = "idle" /\ ret.op = "sample_pagerank" /\ n <= 0 /\ Len(corpus) > 0) =>
        ret.status = "error"

\* C8: sample_pagerank and iterate_pagerank on a corpus without pages fail
\* and return no rank assignment.
EmptyCorpusRejected ==
    (pc = "idle" /\ ret.op \in {"sample_pagerank", "iterate_pagerank"} /\ Len(corpus) = 0) =>
        ret.status = "error"

\* C9: two calls of iterate_pagerank in succession on the same corpus object
\* with the same damping return the same ranks.
SecondCallSameResult ==
    Len(iterResults) = 2 => iterResults[1] = iterResults[2]

\* C9 witness: two calls have returned on a corpus of several pages one of
\* which was a sink (it links to itself only after the rewrite of sinks).
SecondCallSameResultWitness ==
    /\ Len(iterResults) = 2
    /\ Len(corpus) >= 2
    /\ \E p \in Pages(corpus) : p \in corpus[p]
    /\ iterResults[2] # InitRanks(corpus)

\* C10: in a pass of iterate_pagerank the new rank of every page is computed
\* from the ranks before the pass only.
PassReadsPreviousRanks ==
    Returned("iterate_pagerank") =>
        \A p \in Pages(corpus) :
            ret.value[p] \in calcPageRank(p, corpus, prevRanks, damping_factor)

====
